---- MODULE Spec2Model ----
(***************************************************************************)
(* A model of the StringBuilder class of src/StringBuilder.ts (lines       *)
(* 1-828): a main Uint16Array buffer `_str` with an end pointer `_length`, *)
(* an optional prepend buffer `_toPrepend` (itself a StringBuilder built   *)
(* without a prepend buffer) that holds prepended units in reverse order,  *)
(* and the `_temp` / `_isDirty` string cache.                              *)
(*                                                                         *)
(* A JavaScript string is the sequence of its UTF-16 code units, so a      *)
(* string is modelled as a sequence of numbers in 0..65535 and             *)
(* s.charCodeAt(i) is s[i+1].  A builder is a record; every method is an   *)
(* operator from a builder (and arguments) to a record                     *)
(*   [sb |-> the builder afterwards, ret |-> the returned value as a       *)
(*    sequence, threw |-> whether a RangeError was thrown].                *)
(* The calls of the state machine pass ordinary BMP code units: the buffer *)
(* engine works on fixed-width code units.  The str setter is checked in   *)
(* addition with a text that starts with a byte order mark and a text that *)
(* ends in a lone surrogate, which the decoder of str() does not hand back *)
(* unchanged.                                                              *)
(*                                                                         *)
(* Spec is the machine of the mutating and reading methods, SpecEnum adds  *)
(* the enumerating methods, SpecSized is a builder sized in advance that   *)
(* is only appended to, and SpecReadme replays the example of the README.  *)
(***************************************************************************)
EXTENDS Integers, Sequences, FiniteSets, TLC

\* sb: the builder; made: the arguments it was constructed with; last: the
\* method called last and whether it threw; calls: the number of calls made.
VARIABLES sb, made, last, calls

vars == <<sb, made, last, calls>>

StringBuilderMinSize == 24

\* ---------------------------------------------------------------- bounds
\* Number of method calls made on a builder after its construction.
MaxCalls == 3
\* Largest magnitude of an index argument that is not relative to the end.
MaxIdx == 4
\* Largest ordinary delete count.
MaxDel == 2
\* A delete count larger than any length that occurs (tests use 100).
BigDel == 100

Max(x, y) == IF x > y THEN x ELSE y
Min(x, y) == IF x < y THEN x ELSE y

\* -------------------------------------------------- typed array semantics
\* new Uint16Array(n): n zeroed elements.
NewArray(n) == [i \in 1..n |-> 0]

\* Conversion of a stored number to an element of a Uint16Array.
ToUint16(v) == v % 65536

\* A relative index of subarray / copyWithin: negative counts from the end,
\* and the result is clamped into 0..len.
RelIndex(len, k) == IF k < 0 THEN Max(len + k, 0) ELSE Min(k, len)

\* TypedArray.prototype.subarray(begin, end), as the sequence it views.
subarray(arr, begin, end) ==
    LET b == RelIndex(Len(arr), begin)
        e == RelIndex(Len(arr), end)
    IN  [i \in 1..Max(e - b, 0) |-> arr[b + i]]

\* A copyWithin that moves nothing.
copyWithinNothing(arr, target, start, end) == arr

\* TypedArray.prototype.copyWithin(target, start, end): a memmove.
copyWithin(arr, target, start, end) ==
    LET len   == Len(arr)
        to    == RelIndex(len, target)
        from  == RelIndex(len, start)
        final == RelIndex(len, end)
        count == Min(final - from, len - to)
    IN  IF count > 0
        THEN [i \in 1..len |->
                IF i - 1 >= to /\ i - 1 < to + count
                THEN arr[from + (i - to)]
                ELSE arr[i]]
        ELSE arr

\* arr[index + i] = units[i] for every i, element by element: an assignment
\* to an index outside the array is ignored.
AssignUnits(arr, units, index) ==
    [i \in 1..Len(arr) |->
        IF i - index >= 1 /\ i - index <= Len(units)
        THEN ToUint16(units[i - index])
        ELSE arr[i]]

\* TypedArray.prototype.set(source, offset): RangeError when the source does
\* not fit at the offset, and then nothing is written.
set(arr, source, offset) ==
    IF offset < 0 \/ Len(source) + offset > Len(arr)
    THEN [arr |-> arr, threw |-> TRUE]
    ELSE [arr |-> AssignUnits(arr, source, offset), threw |-> FALSE]

\* TextDecoder("utf-16").decode(units): a leading byte order mark is
\* dropped and a surrogate that is not part of a pair becomes U+FFFD.
IsHigh(u) == u >= 55296 /\ u <= 56319
IsLow(u)  == u >= 56320 /\ u <= 57343
decode(units) ==
    LET body == IF Len(units) > 0 /\ units[1] = 65279
                THEN Tail(units) ELSE units
        Lone(i) == \/ IsHigh(body[i]) /\ (i = Len(body) \/ ~IsLow(body[i + 1]))
                   \/ IsLow(body[i]) /\ (i = 1 \/ ~IsHigh(body[i - 1]))
    IN  [i \in 1..Len(body) |-> IF Lone(i) THEN 65533 ELSE body[i]]

\* ---------------------------------------------------------------- values
\* An argument `strOrArray`: a string, an array of char codes or a single
\* char code; `val` holds its units.
Str(s)   == [kind |-> "string", val |-> s]
Arr(a)   == [kind |-> "array", val |-> a]
Num(n)   == [kind |-> "number", val |-> <<n>>]

\* What a method hands back.
Ok(b)          == [sb |-> b, ret |-> <<>>, threw |-> FALSE]
Return(b, r)   == [sb |-> b, ret |-> r, threw |-> FALSE]
Throw(b)       == [sb |-> b, ret |-> <<>>, threw |-> TRUE]

HasPrepend(b) == Len(b._toPrepend) > 0

\* get length(): main length plus the prepend buffer's.
length(b) ==
    b._length + (IF HasPrepend(b) THEN b._toPrepend[1]._length ELSE 0)

\* get bufferLength()
bufferLength(b) ==
    Len(b._str) + (IF HasPrepend(b) THEN Len(b._toPrepend[1]._str) ELSE 0)

\* A bounds check that lets the index one past the last unit through.
validateIndexLax(b, index, allowEnd) ==
    LET idx == IF index < 0 THEN index + length(b) ELSE index
    IN  [index |-> idx,
         threw |-> idx > length(b) + (IF allowEnd THEN 1 ELSE 0) \/ idx < 0]

\* _validateIndex(index, allowEnd): the normalised index, or a RangeError.
_validateIndex(b, index, allowEnd) ==
    LET idx == IF index < 0 THEN index + length(b) ELSE index
    IN  [index |-> idx,
         threw |-> idx >= length(b) + (IF allowEnd THEN 1 ELSE 0) \/ idx < 0]

\* An _expand that also reallocates a buffer the size fills exactly.
expandWhenFull(b, size) ==
    IF size >= Len(b._str)
    THEN [b EXCEPT !._str = set(NewArray((size + 1) * 2), b._str, 0).arr]
    ELSE b

\* _expand(size)
_expand(b, size) ==
    IF size > Len(b._str)
    THEN [b EXCEPT !._str = set(NewArray((size + 1) * 2), b._str, 0).arr]
    ELSE b

\* _writeString(str, index)
_writeString(b, str, index) ==
    [b EXCEPT !._str = AssignUnits(b._str, str, index)]

\* _writeArray(array, start), for an array of char codes: one set() call.
_writeArray(b, array, start) ==
    LET r == set(b._str, array, start)
    IN  [sb |-> [b EXCEPT !._str = r.arr], threw |-> r.threw]

\* clear()
clear(b) ==
    IF b._length # 0
    THEN [b EXCEPT !._length = 0, !._isDirty = FALSE, !._temp = <<>>]
    ELSE b

\* An _applyPrepend that merges nothing.
applyPrependNothing(b) == b

\* _applyPrepend()
_applyPrepend(b) ==
    IF ~HasPrepend(b) THEN b
    ELSE LET p == b._toPrepend[1] IN
         IF p._length = 0 THEN b
         ELSE LET b1 == _expand(b, p._length + b._length)
                  shifted == copyWithin(b1._str, p._length, 0, b1._length)
                  merged == AssignUnits(shifted,
                                [i \in 1..p._length |-> p._str[p._length - i + 1]], 0)
              IN  [b1 EXCEPT !._str = merged,
                             !._length = b._length + p._length,
                             !._isDirty = TRUE,
                             !._toPrepend = <<clear(p)>>]

\* Element read arr[i] (0-based): the element, or undefined (empty) outside.
ElementAt(arr, i) == IF i >= 0 /\ i < Len(arr) THEN <<arr[i + 1]>> ELSE <<>>

\* String.fromCharCode(x): undefined converts to the unit 0.
fromCharCode(x) == IF Len(x) = 0 THEN <<0>> ELSE x

RECURSIVE insert(_, _, _)
RECURSIVE shrink(_)
RECURSIVE charAt(_, _)
RECURSIVE construct(_, _)

\* append(strOrArray)
append(b, d) ==
    IF d.kind = "number"
    THEN LET b1 == _expand(b, length(b) + 1)
         IN  Ok([b1 EXCEPT !._str = AssignUnits(b1._str, d.val, b1._length),
                           !._length = b1._length + 1,
                           !._isDirty = TRUE])
    ELSE IF Len(d.val) = 0 THEN Ok(b)
    ELSE LET b1 == _expand(b, length(b) + Len(d.val))
             w  == IF d.kind = "string"
                   THEN [sb |-> _writeString(b1, d.val, b1._length), threw |-> FALSE]
                   ELSE _writeArray(b1, d.val, b1._length)
         IN  IF w.threw THEN Throw(w.sb)
             ELSE Ok([w.sb EXCEPT !._length = b1._length + Len(d.val),
                                  !._isDirty = TRUE])

\* prepend(strOrArray)
prepend(b, d) ==
    IF d.kind # "number" /\ Len(d.val) = 0 THEN Ok(b)
    ELSE IF ~HasPrepend(b) THEN insert(b, 0, d)
    ELSE LET objLength == Len(d.val)
             p   == b._toPrepend[1]
             p1  == _expand(p, p._length + objLength)
             rev == [i \in 1..objLength |-> d.val[objLength - i + 1]]
             p2  == [p1 EXCEPT !._str = AssignUnits(p1._str, rev, p1._length),
                               !._length = p1._length + objLength]
         IN  Ok([b EXCEPT !._toPrepend = <<p2>>, !._isDirty = TRUE])

\* A splice that moves the tail to the index itself, not past the added
\* data.
spliceNoRoom(b, index, delCount, toAdd) ==
    LET b1  == _applyPrepend(b)
        objLength == Len(toAdd.val)
        del == IF delCount # 0
               THEN Max(Min(b1._length - index, delCount), 0)
               ELSE delCount
        v   == _validateIndex(b1, index, TRUE)
    IN  IF v.threw THEN Throw(b1)
        ELSE LET newSize == b1._length - del + objLength
                 b2 == _expand(b1, newSize)
                 b3 == [b2 EXCEPT !._str =
                          copyWithin(b2._str, v.index,
                                     v.index + del, b2._length)]
                 w  == IF objLength = 0 THEN [sb |-> b3, threw |-> FALSE]
                       ELSE IF toAdd.kind = "array"
                       THEN _writeArray(b3, toAdd.val, v.index)
                       ELSE [sb |-> _writeString(b3, toAdd.val, v.index),
                             threw |-> FALSE]
             IN  IF w.threw THEN Throw(w.sb)
                 ELSE Ok([w.sb EXCEPT !._length = newSize, !._isDirty = TRUE])

\* A splice that empties the builder before it rejects an index.
spliceEmptying(b, index, delCount, toAdd) ==
    LET b1  == _applyPrepend(b)
        objLength == Len(toAdd.val)
        del == IF delCount # 0
               THEN Max(Min(b1._length - index, delCount), 0)
               ELSE delCount
        v   == _validateIndex(b1, index, TRUE)
    IN  IF v.threw THEN Throw([b1 EXCEPT !._length = 0, !._isDirty = TRUE])
        ELSE LET newSize == b1._length - del + objLength
                 b2 == _expand(b1, newSize)
                 b3 == [b2 EXCEPT !._str =
                          copyWithin(b2._str, v.index + objLength,
                                     v.index + del, b2._length)]
                 w  == IF objLength = 0 THEN [sb |-> b3, threw |-> FALSE]
                       ELSE IF toAdd.kind = "array"
                       THEN _writeArray(b3, toAdd.val, v.index)
                       ELSE [sb |-> _writeString(b3, toAdd.val, v.index),
                             threw |-> FALSE]
             IN  IF w.threw THEN Throw(w.sb)
                 ELSE Ok([w.sb EXCEPT !._length = newSize, !._isDirty = TRUE])

\* splice(index, delCount, toAdd)
splice(b, index, delCount, toAdd) ==
    LET b1  == _applyPrepend(b)
        objLength == Len(toAdd.val)
        del == IF delCount # 0
               THEN Max(Min(b1._length - index, delCount), 0)
               ELSE delCount
        v   == _validateIndex(b1, index, TRUE)
    IN  IF v.threw THEN Throw(b1)
        ELSE LET newSize == b1._length - del + objLength
                 b2 == _expand(b1, newSize)
                 b3 == [b2 EXCEPT !._str =
                          copyWithin(b2._str, v.index + objLength,
                                     v.index + del, b2._length)]
                 w  == IF objLength = 0 THEN [sb |-> b3, threw |-> FALSE]
                       ELSE IF toAdd.kind = "array"
                       THEN _writeArray(b3, toAdd.val, v.index)
                       ELSE [sb |-> _writeString(b3, toAdd.val, v.index),
                             threw |-> FALSE]
             IN  IF w.threw THEN Throw(w.sb)
                 ELSE Ok([w.sb EXCEPT !._length = newSize, !._isDirty = TRUE])

\* An insert that routes index 0 to the wrong end.
insertAtEnd(b, index, d) ==
    IF index = 0 /\ HasPrepend(b)
    THEN append(b, d)
    ELSE splice(b, index, 0, d)

\* insert(index, strOrArray)
insert(b, index, d) ==
    IF index = 0 /\ HasPrepend(b)
    THEN prepend(b, d)
    ELSE splice(b, index, 0, d)

\* A write that ends the string where the written data ends.
writeTruncating(b, index, d) ==
    IF Len(d.val) = 0 THEN Ok(b)
    ELSE LET b1 == _applyPrepend(b)
             newLength == index + Len(d.val)
             b2 == _expand(b1, newLength)
             w  == IF d.kind = "string"
                   THEN [sb |-> _writeString(b2, d.val, index), threw |-> FALSE]
                   ELSE _writeArray(b2, d.val, index)
         IN  IF w.threw THEN Throw(w.sb)
             ELSE Ok([w.sb EXCEPT !._length = newLength, !._isDirty = TRUE])

\* write(index, strOrArray)
write(b, index, d) ==
    IF Len(d.val) = 0 THEN Ok(b)
    ELSE LET b1 == _applyPrepend(b)
             newLength == Max(index + Len(d.val), b1._length)
             b2 == _expand(b1, newLength)
             w  == IF d.kind = "string"
                   THEN [sb |-> _writeString(b2, d.val, index), threw |-> FALSE]
                   ELSE _writeArray(b2, d.val, index)
         IN  IF w.threw THEN Throw(w.sb)
             ELSE Ok([w.sb EXCEPT !._length = newLength, !._isDirty = TRUE])

\* reserve(size)
reserve(b, size) == Ok(_expand(_applyPrepend(b), size))

\* A shrink that fits the main buffer to the main length alone.
shrinkToMain(b) ==
    LET inner == IF HasPrepend(b)
                 THEN shrink(b._toPrepend[1])
                 ELSE Ok(b)
        b1 == IF HasPrepend(b)
              THEN [b EXCEPT !._toPrepend = <<inner.sb>>]
              ELSE b
        newBufLength == Max(StringBuilderMinSize, (b1._length + 1) * 2)
    IN  IF inner.threw THEN Throw(b1)
        ELSE IF Len(b1._str) < newBufLength THEN Ok(b1)
        ELSE LET r == set(NewArray(newBufLength),
                          subarray(b1._str, 0, b1._length), 0)
             IN  IF r.threw
                 THEN Throw([b1 EXCEPT !._str = NewArray(newBufLength)])
                 ELSE Ok([b1 EXCEPT !._str = r.arr])

\* A shrink that reallocates nothing.
shrinkNothing(b) == Ok(b)

\* shrink()
shrink(b) ==
    LET inner == IF HasPrepend(b)
                 THEN shrink(b._toPrepend[1])
                 ELSE Ok(b)
        b1 == IF HasPrepend(b)
              THEN [b EXCEPT !._toPrepend = <<inner.sb>>]
              ELSE b
        newBufLength == Max(StringBuilderMinSize, (length(b1) + 1) * 2)
    IN  IF inner.threw THEN Throw(b1)
        ELSE IF Len(b1._str) < newBufLength THEN Ok(b1)
        ELSE LET r == set(NewArray(newBufLength),
                          subarray(b1._str, 0, b1._length), 0)
             IN  IF r.threw
                 THEN Throw([b1 EXCEPT !._str = NewArray(newBufLength)])
                 ELSE Ok([b1 EXCEPT !._str = r.arr])

\* str(): the getter
str_get(b) ==
    LET b1 == _applyPrepend(b)
        b2 == IF b1._isDirty
              THEN [b1 EXCEPT !._temp = decode(subarray(b1._str, 0, b1._length))]
              ELSE b1
    IN  Return(b2, b2._temp)

\* A setter that leaves the prepend buffer as it is.
str_setKeepPrepend(b, s) ==
    LET b1 == _expand(b, Len(s))
    IN  Ok([b1 EXCEPT !._str = AssignUnits(b1._str, s, 0),
                      !._length = Len(s),
                      !._temp = s,
                      !._isDirty = FALSE])

\* str(str): the setter
str_set(b, s) ==
    LET b1 == _expand(b, Len(s))
    IN  Ok([b1 EXCEPT !._str = AssignUnits(b1._str, s, 0),
                      !._length = Len(s),
                      !._toPrepend = IF HasPrepend(b)
                                     THEN <<clear(b._toPrepend[1])>>
                                     ELSE <<>>,
                      !._temp = s,
                      !._isDirty = FALSE])

\* charAt(index)
charAt(b, index) ==
    LET v == _validateIndex(b, index, FALSE)
    IN  IF v.threw THEN Throw(b)
        ELSE IF HasPrepend(b)
        THEN LET p == b._toPrepend[1]
             IN  IF v.index < p._length
                 THEN LET r == charAt(p, p._length - 1 - v.index)
                      IN  [sb |-> b, ret |-> r.ret, threw |-> r.threw]
                 ELSE Return(b, fromCharCode(ElementAt(b._str, v.index - p._length)))
        ELSE Return(b, fromCharCode(ElementAt(b._str, v.index)))

\* A charCodeAt that reads the prepend buffer in stored order.
charCodeAtStored(b, index) ==
    LET v == _validateIndex(b, index, FALSE)
    IN  IF v.threw THEN Throw(b)
        ELSE IF HasPrepend(b)
        THEN LET p == b._toPrepend[1]
             IN  IF v.index < p._length
                 THEN Return(b, ElementAt(p._str, v.index))
                 ELSE Return(b, ElementAt(b._str, v.index - p._length))
        ELSE Return(b, ElementAt(b._str, v.index))

\* charCodeAt(index)
charCodeAt(b, index) ==
    LET v == _validateIndex(b, index, FALSE)
    IN  IF v.threw THEN Throw(b)
        ELSE IF HasPrepend(b)
        THEN LET p == b._toPrepend[1]
             IN  IF v.index < p._length
                 THEN Return(b, ElementAt(p._str, p._length - 1 - v.index))
                 ELSE Return(b, ElementAt(b._str, v.index - p._length))
        ELSE Return(b, ElementAt(b._str, v.index))

\* An optional argument: left out (undefined), or given.
None    == <<>>
Some(n) == <<n>>

RECURSIVE MatchAt(_, _, _, _)
RECURSIVE Scan(_, _, _, _)

\* The inner loop of search at start position i, from unit j of the query
\* on: it ends at the first unit that differs, or when charCodeAt throws.
MatchAt(b, query, i, j) ==
    IF j >= Len(query) THEN "match"
    ELSE LET c == charCodeAt(b, i + j)
         IN  IF c.threw THEN "throw"
             ELSE IF c.ret # <<query[j + 1]>> THEN "mismatch"
             ELSE MatchAt(b, query, i, j + 1)

\* The outer loop of search: start positions i, i + 1, ... below end.
Scan(b, query, i, end) ==
    IF i >= end THEN Return(b, <<-1>>)
    ELSE LET m == MatchAt(b, query, i, 0)
         IN  IF m = "match" THEN Return(b, <<i>>)
             ELSE IF m = "throw" THEN Throw(b)
             ELSE Scan(b, query, i + 1, end)

\* A search that finds the empty query at startAt, as indexOf does.
searchEmptyFound(b, query, startAt, end) ==
    IF length(b) = 0 THEN Return(b, <<-1>>)
    ELSE LET v == _validateIndex(b, startAt, FALSE)
         IN  IF v.threw THEN Throw(b)
             ELSE IF Len(query) = 0 THEN Return(b, <<v.index>>)
             ELSE LET last_ == length(b) - Len(query) + 1
                      e0 == IF end = None THEN last_ ELSE Min(end[1], last_)
                      e  == _validateIndex(b, e0, TRUE)
                  IN  IF e.threw THEN Throw(b)
                      ELSE Scan(b, query, v.index, e.index)

\* A search that scans from position 0 whatever startAt is.
searchFromZero(b, query, startAt, end) ==
    IF length(b) = 0 THEN Return(b, <<-1>>)
    ELSE LET v == _validateIndex(b, startAt, FALSE)
         IN  IF v.threw THEN Throw(b)
             ELSE IF Len(query) = 0 THEN Return(b, <<-1>>)
             ELSE LET last_ == length(b) - Len(query) + 1
                      e0 == IF end = None THEN last_ ELSE Min(end[1], last_)
                      e  == _validateIndex(b, e0, TRUE)
                  IN  IF e.threw THEN Throw(b)
                      ELSE Scan(b, query, 0, e.index)

\* search(query, startAt, end), for a string query.
search(b, query, startAt, end) ==
    IF length(b) = 0 THEN Return(b, <<-1>>)
    ELSE LET v == _validateIndex(b, startAt, FALSE)
         IN  IF v.threw THEN Throw(b)
             ELSE IF Len(query) = 0 THEN Return(b, <<-1>>)
             ELSE LET last_ == length(b) - Len(query) + 1
                      e0 == IF end = None THEN last_ ELSE Min(end[1], last_)
                      e  == _validateIndex(b, e0, TRUE)
                  IN  IF e.threw THEN Throw(b)
                      ELSE Scan(b, query, v.index, e.index)

\* replace(query, value, startAt, end), for a string query.
replace(b, query, value, startAt, end) ==
    LET b1 == _applyPrepend(b)
    IN  IF Len(query) = 0 THEN Ok(b1)
        ELSE LET f == search(b1, query, startAt, end)
             IN  IF f.threw THEN Throw(b1)
                 ELSE IF f.ret = <<-1>> THEN Ok(b1)
                 ELSE LET idx == f.ret[1]
                          newLength == b1._length + Len(value) - Len(query)
                          b2 == _expand(b1, newLength)
                          moved == copyWithin(b2._str,
                                              idx + Len(value) - Len(query),
                                              idx + Len(query), b2._length)
                      IN  Ok([b2 EXCEPT !._str = AssignUnits(moved, value, idx),
                                        !._length = newLength,
                                        !._isDirty = TRUE])

\* A substring that always runs to the end of the string.
substringToEnd(b, start, end) ==
    LET b1 == _applyPrepend(b)
        v  == _validateIndex(b1, start, FALSE)
    IN  IF v.threw THEN Throw(b1)
        ELSE Return(b1, decode(subarray(b1._str, v.index, b1._length)))

\* substring(start, end)
substring(b, start, end) ==
    LET b1 == _applyPrepend(b)
        v  == _validateIndex(b1, start, FALSE)
    IN  IF v.threw THEN Throw(b1)
        ELSE IF end = None
        THEN Return(b1, decode(subarray(b1._str, v.index, b1._length)))
        ELSE LET e == _validateIndex(b1, Min(end[1], b1._length), TRUE)
             IN  IF e.threw THEN Throw(b1)
                 ELSE Return(b1, decode(subarray(b1._str, v.index, e.index)))

\* An operand of equals: another builder, or the builder itself.
Sb(o) == [kind |-> "builder", val |-> o]
This  == [kind |-> "this", val |-> <<>>]

\* value.length and value.charCodeAt(i) / value[i] of an operand of equals.
ValueLength(b, value) ==
    IF value.kind = "this" THEN length(b)
    ELSE IF value.kind = "builder" THEN length(value.val)
    ELSE Len(value.val)

ValueCodeAt(b, value, i) ==
    IF value.kind = "this" THEN charCodeAt(b, i)
    ELSE IF value.kind = "builder" THEN charCodeAt(value.val, i)
    ELSE Return(b, ElementAt(value.val, i))

\* equals(value)
equals(b, value) ==
    LET n == ValueLength(b, value)
    IN  IF n # length(b) THEN Return(b, <<FALSE>>)
        ELSE IF n = 0 /\ length(b) = 0 THEN Return(b, <<TRUE>>)
        ELSE IF value.kind = "this" THEN Return(b, <<TRUE>>)
        ELSE LET bad(i) == \/ ValueCodeAt(b, value, i).threw
                           \/ charCodeAt(b, i).threw
                           \/ ValueCodeAt(b, value, i).ret # charCodeAt(b, i).ret
                 is    == {i \in 0..(n - 1) : bad(i)}
                 first == CHOOSE i \in is : \A k \in is : i <= k
             IN  IF is = {} THEN Return(b, <<TRUE>>)
                 ELSE IF ValueCodeAt(b, value, first).threw
                         \/ charCodeAt(b, first).threw
                 THEN Throw(b)
                 ELSE Return(b, <<FALSE>>)

\* [Symbol.iterator](): the strings a for-of loop over the builder yields.
iterator(b) ==
    LET n == Max(b._length, 0)
    IN  [sb    |-> b,
         ret   |-> [i \in 1..n |-> charAt(b, i - 1).ret],
         threw |-> \E i \in 1..n : charAt(b, i - 1).threw]

\* forEach(callback), for a callback that never returns -1: the strings the
\* callback is called with.
forEach(b) ==
    LET n == Max(b._length, 0)
    IN  [sb    |-> b,
         ret   |-> [i \in 1..n |-> charAt(b, i - 1).ret],
         threw |-> \E i \in 1..n : charAt(b, i - 1).threw]

\* toArray(): new Array(this.length), a RangeError for a negative length,
\* filled below this._length; a slot never assigned is empty.
toArray(b) ==
    IF length(b) < 0 THEN Throw(b)
    ELSE LET n == Max(b._length, 0)
             size == Max(length(b), n)
         IN  [sb    |-> b,
              ret   |-> [i \in 1..size |->
                            IF i <= n THEN charAt(b, i - 1).ret ELSE <<>>],
              threw |-> \E i \in 1..n : charAt(b, i - 1).threw]

\* A constructor that allocates for the string but never sets it.
constructUnset(strOrSize, usePrependBuffer) ==
    LET inner == [_str |-> NewArray(StringBuilderMinSize), _length |-> 0,
                  _isDirty |-> FALSE, _temp |-> <<>>, _toPrepend |-> <<>>]
        size  == IF strOrSize.kind = "string"
                 THEN (Len(strOrSize.val) + 1) * 2
                 ELSE strOrSize.val[1]
    IN  [_str |-> NewArray(Max(size, StringBuilderMinSize)), _length |-> 0,
         _isDirty |-> FALSE, _temp |-> <<>>,
         _toPrepend |-> IF usePrependBuffer THEN <<inner>> ELSE <<>>]

\* constructor(strOrSize, Uint16Array, usePrependBuffer)
construct(strOrSize, usePrependBuffer) ==
    LET b0 == [_str |-> <<>>, _length |-> 0, _isDirty |-> FALSE, _temp |-> <<>>,
               _toPrepend |-> IF usePrependBuffer
                              THEN <<construct(Num(StringBuilderMinSize), FALSE)>>
                              ELSE <<>>]
    IN  IF strOrSize.kind = "string"
        THEN str_set([b0 EXCEPT !._str =
                          NewArray(Max((Len(strOrSize.val) + 1) * 2,
                                       StringBuilderMinSize))],
                     strOrSize.val).sb
        ELSE [b0 EXCEPT !._str =
                  NewArray(Max(strOrSize.val[1], StringBuilderMinSize))]

\* ------------------------------------------------------------ the machine
\* A string of one more unit than the smallest buffer holds.
Long == [i \in 1..(StringBuilderMinSize + 1) |-> IF i = 2 THEN 98 ELSE 97]

\* Arguments of the calls the machine makes.
InitArgs    == {<<Str(<<>>), TRUE>>, <<Str(<<97, 98>>), TRUE>>,
                <<Str(<<97, 98>>), FALSE>>, <<Num(0), FALSE>>,
                <<Str(Long), TRUE>>}
AppendArgs  == {Str(<<97>>)}
PrependArgs == {Str(<<98, 97>>)}
InsertArgs  == {<<1, Arr(<<98>>)>>}
SpliceArgs  == {<<0, 1, Str(<<>>)>>, <<-1, BigDel, Str(<<>>)>>}
WriteArgs   == {<<1, Str(<<97>>)>>}
StrArgs     == {<<98>>}
Sizes       == {StringBuilderMinSize + 1}
CharAtArgs     == {-1}
CharCodeAtArgs == {0}
SearchArgs     == {<<<<98>>, 0, None>>}
ReplaceArgs    == {<<<<97>>, <<>>, 0, None>>}
SubstringArgs  == {<<1, Some(2)>>}
EqualsArgs     == {Str(<<97, 98>>)}

\* The call that produced the current state.
Called(name, r) == [op |-> name, threw |-> r.threw]

Step(name, r) ==
    /\ calls < MaxCalls
    /\ sb' = r.sb
    /\ last' = Called(name, r)
    /\ calls' = calls + 1
    /\ UNCHANGED made

Init ==
    /\ made \in InitArgs
    /\ sb = construct(made[1], made[2])
    /\ last = [op |-> "constructor", threw |-> FALSE]
    /\ calls = 0

DoAppend   == \E d \in AppendArgs : Step("append", append(sb, d))
DoPrepend  == \E d \in PrependArgs : Step("prepend", prepend(sb, d))
DoInsert   == \E a \in InsertArgs : Step("insert", insert(sb, a[1], a[2]))
DoSplice   == \E a \in SpliceArgs : Step("splice", splice(sb, a[1], a[2], a[3]))
DoWrite    == \E a \in WriteArgs : Step("write", write(sb, a[1], a[2]))
DoStrSet   == \E s \in StrArgs : Step("str=", str_set(sb, s))
DoStrGet   == Step("str", str_get(sb))
DoClear    == Step("clear", Ok(clear(sb)))
DoShrink   == Step("shrink", shrink(sb))
DoReserve  == \E n \in Sizes : Step("reserve", reserve(sb, n))
DoCharAt   == \E i \in CharAtArgs : Step("charAt", charAt(sb, i))
DoCharCodeAt == \E i \in CharCodeAtArgs : Step("charCodeAt", charCodeAt(sb, i))
DoSearch   == \E a \in SearchArgs : Step("search", search(sb, a[1], a[2], a[3]))
DoReplace  ==
    \E a \in ReplaceArgs : Step("replace", replace(sb, a[1], a[2], a[3], a[4]))
DoSubstring == \E a \in SubstringArgs : Step("substring", substring(sb, a[1], a[2]))
DoEquals   == \E x \in EqualsArgs : Step("equals", equals(sb, x))

Next ==
    \/ DoAppend \/ DoPrepend \/ DoInsert \/ DoSplice \/ DoWrite
    \/ DoStrSet \/ DoStrGet \/ DoClear \/ DoShrink \/ DoReserve
    \/ DoCharAt \/ DoCharCodeAt
    \/ DoSearch \/ DoReplace \/ DoSubstring \/ DoEquals

Spec == Init /\ [][Next]_vars

\* The README's example: a builder made from "01234", on which the first
\* call is splice(0, 1, "abc"); the calls of Next may follow.
Digits == <<48, 49, 50, 51, 52>>
ReadmeSpliceArgs == {<<0, 1, Str(<<97, 98, 99>>)>>}

ReadmeInit ==
    /\ made = <<Str(Digits), TRUE>>
    /\ sb = construct(made[1], made[2])
    /\ last = [op |-> "constructor", threw |-> FALSE]
    /\ calls = 0

DoReadmeSplice ==
    /\ calls = 0
    /\ \E a \in ReadmeSpliceArgs :
          Step("readme splice", splice(sb, a[1], a[2], a[3]))

ReadmeNext == DoReadmeSplice \/ Next

SpecReadme == ReadmeInit /\ [][ReadmeNext]_vars

\* The machine with the enumerations: for-of iteration, forEach and toArray
\* read the builder between the other calls.
DoIterator == Step("iterator", iterator(sb))
DoForEach  == Step("forEach", forEach(sb))
DoToArray  == Step("toArray", toArray(sb))

EnumNext == DoIterator \/ DoForEach \/ DoToArray \/ Next

SpecEnum == Init /\ [][EnumNext]_vars

\* The README's pre-sized builder: a capacity is asked for ahead of time, of
\* the constructor or of reserve, and data is appended while the length
\* stays at or below that capacity. made[1] holds the capacity asked for.
PreSizes == {3, StringBuilderMinSize + 1, StringBuilderMinSize + 3}

\* Data appended after pre-sizing: a string, a char code, an array, and a
\* string that overflows the smallest buffer.
AppendData == {Str(<<97>>), Num(98), Arr(<<98, 97>>), Str(Long)}

\* Builders reserve is called on: empty, holding a string, holding unmerged
\* prepended data, and left with a negative length by splice.
Reserving ==
    {construct(Str(<<>>), TRUE),
     construct(Str(<<97, 98>>), FALSE),
     construct(Str(Long), TRUE),
     prepend(construct(Str(<<97, 98>>), TRUE), Str(<<98, 97>>)).sb,
     splice(construct(Str(<<97, 98>>), FALSE), -1, BigDel, Str(<<>>)).sb}

SizedInit ==
    /\ calls = 0
    /\ \E n \in PreSizes :
          \/ \E u \in BOOLEAN :
                /\ made = <<Num(n), u>>
                /\ sb = construct(Num(n), u)
                /\ last = [op |-> "constructor", threw |-> FALSE]
          \/ \E b \in Reserving :
                /\ made = <<Num(n), HasPrepend(b)>>
                /\ sb = reserve(b, n).sb
                /\ last = [op |-> "reserve", threw |-> FALSE]

DoSizedAppend ==
    \E d \in AppendData :
        LET r == append(sb, d)
        IN  /\ length(r.sb) <= made[1].val[1]
            /\ Step("append", r)

SizedNext == DoSizedAppend

SpecSized == SizedInit /\ [][SizedNext]_vars

\* ------------------------------------------------------------ the claims
\* What str() returns when called on b, and b's string read unit by unit.
StrOf(b) == str_get(b).ret

\* Some prepended data is still held in the prepend buffer.
Unmerged(b) == HasPrepend(b) /\ b._toPrepend[1]._length > 0

\* Strings the claims range over.
Strings == {<<>>, <<97>>, <<98, 97>>, Long}

\* C1: a builder constructed from a string s returns exactly s from str()
\* and its length is the length of s.
C1_ConstructRoundTrip ==
    (calls = 0 /\ made[1].kind = "string") =>
        /\ StrOf(sb) = made[1].val
        /\ length(sb) = Len(made[1].val)

C1_Witness ==
    /\ calls = 0
    /\ made[1] = Str(<<97, 98>>)
    /\ StrOf(sb) = <<97, 98>>

\* C2: in every reachable builder state, append(s) makes str() the previous
\* str() followed by s, and length grows by exactly the length of s.
C2_Append ==
    \A s \in Strings :
        LET r == append(sb, Str(s))
        IN  /\ ~r.threw
            /\ StrOf(r.sb) = StrOf(sb) \o s
            /\ length(r.sb) = length(sb) + Len(s)

\* C3: in every reachable builder state, prepend(s) makes str() s followed
\* by the previous str().
C3_Prepend ==
    \A s \in Strings :
        LET r == prepend(sb, Str(s))
        IN  /\ ~r.threw
            /\ StrOf(r.sb) = s \o StrOf(sb)

\* Index arguments the claims range over: the small ones and those next to
\* either end of the string.
IndexArgs(b) ==
    (-MaxIdx..MaxIdx)
        \cup {length(b) - 1, length(b), length(b) + 1, -length(b), -length(b) - 1}

\* Sequences handed to insert, splice and write: strings and arrays of codes.
Sequences == {Str(<<>>), Str(<<98, 97>>), Arr(<<97>>)}

DelCounts == (-1..MaxDel) \cup {BigDel}

\* C4: while prepended data is unmerged, charAt(i) and charCodeAt(i) give,
\* for every i in [0, length), the unit str() holds at position i, and
\* length is the number of units of str().
C4_CharAtUnmerged ==
    Unmerged(sb) =>
        LET s == StrOf(sb)
        IN  /\ length(sb) = Len(s)
            /\ \A i \in 0..(length(sb) - 1) :
                  /\ charAt(sb, i) = Return(sb, <<s[i + 1]>>)
                  /\ charCodeAt(sb, i) = Return(sb, <<s[i + 1]>>)

C4_Witness ==
    /\ last = [op |-> "charAt", threw |-> FALSE]
    /\ Unmerged(sb)
    /\ sb._length > 0
    /\ charAt(sb, 0).ret = <<98>>
    /\ charAt(sb, 2).ret = <<97>>

\* C5: charAt(-k) is charAt(length - k) for 1 <= k <= length, and every
\* index i with i >= length or i < -length raises RangeError; the same for
\* charCodeAt.
C5_IndexNormalisation ==
    \A i \in IndexArgs(sb) :
        /\ (i < 0 /\ -i <= length(sb)) =>
              /\ charAt(sb, i) = charAt(sb, length(sb) + i)
              /\ charCodeAt(sb, i) = charCodeAt(sb, length(sb) + i)
              /\ ~charAt(sb, i).threw
        /\ (i >= length(sb) \/ i < -length(sb)) =>
              /\ charAt(sb, i).threw
              /\ charCodeAt(sb, i).threw

C5_Witness ==
    /\ last = [op |-> "charAt", threw |-> TRUE]
    /\ length(sb) = 0

\* The result the splice contract names: old[0, i) t old[i + c, length).
Spliced(old, i, c, t) ==
    SubSeq(old, 1, i) \o t \o SubSeq(old, i + c + 1, Len(old))

\* C6: for 0 <= i <= length, splice(i, d, t) leaves old[0, i) t
\* old[i + c, length) with c = max(0, min(d, length - i)).
C6_Splice ==
    LET old == StrOf(sb)
    IN  \A i \in IndexArgs(sb) \cap (0..length(sb)), d \in DelCounts, t \in Sequences :
            LET c == Max(0, Min(d, length(sb) - i))
                r == splice(sb, i, d, t)
            IN  /\ ~r.threw
                /\ StrOf(r.sb) = Spliced(old, i, c, t.val)

C6_Witness ==
    /\ last = [op |-> "splice", threw |-> FALSE]
    /\ calls = 1
    /\ made = <<Str(<<97, 98>>), TRUE>>
    /\ StrOf(sb) = <<98>>
    /\ StrOf(splice(sb, 1, BigDel, Arr(<<97>>)).sb) = <<98, 97>>

\* C7: for every index splice accepts, negative ones included (i addresses
\* j = length + i), the length after splice(i, d, t) is length - c + len(t)
\* with c the delete count clamped into [0, length - j].
C7_SpliceLength ==
    \A i \in IndexArgs(sb), d \in DelCounts, t \in Sequences :
        LET r == splice(sb, i, d, t)
            j == IF i < 0 THEN length(sb) + i ELSE i
            c == Max(0, Min(d, length(sb) - j))
        IN  ~r.threw => length(r.sb) = length(sb) - c + Len(t.val)

C9_InsertIsSplice ==
    LET old == StrOf(sb)
    IN  \A i \in IndexArgs(sb) \cap (0..length(sb)), x \in Sequences :
            LET a == insert(sb, i, x)
                b == splice(sb, i, 0, x)
            IN  /\ ~a.threw /\ ~b.threw
                /\ StrOf(a.sb) = StrOf(b.sb)
                /\ length(a.sb) = length(b.sb)
                /\ i = 0 => StrOf(a.sb) = x.val \o old

C9_Witness ==
    /\ last = [op |-> "insert", threw |-> FALSE]
    /\ calls = 1
    /\ made = <<Str(<<97, 98>>), TRUE>>
    /\ StrOf(sb) = <<97, 98, 98>>
    /\ Unmerged(insert(sb, 0, Str(<<98, 97>>)).sb)
    /\ StrOf(insert(sb, 0, Str(<<98, 97>>)).sb) = <<98, 97, 97, 98, 98>>

\* C10: for 0 <= index <= length and non-empty data, write(index, data)
\* puts data at [index, index + len), leaves every other unit below the old
\* length as it was, and makes the length max(old length, index + len).
C10_Write ==
    LET old == StrOf(sb)
    IN  \A i \in IndexArgs(sb) \cap (0..length(sb)), x \in Sequences \ {Str(<<>>)} :
            LET r   == write(sb, i, x)
                new == StrOf(r.sb)
                n   == Len(x.val)
            IN  /\ ~r.threw
                /\ length(r.sb) = Max(length(sb), i + n)
                /\ Len(new) = length(r.sb)
                /\ \A k \in 1..Len(new) :
                      new[k] = IF k > i /\ k <= i + n THEN x.val[k - i]
                               ELSE old[k]

C10_Witness ==
    /\ last = [op |-> "write", threw |-> FALSE]
    /\ calls = 1
    /\ made = <<Str(<<97, 98>>), TRUE>>
    /\ StrOf(sb) = <<97, 97>>
    /\ StrOf(write(sb, 2, Str(<<98, 97>>)).sb) = <<97, 97, 98, 97>>

\* Literal queries handed to search and replace; the last two are longer
\* than the short builders.
Queries == {<<97>>, <<98>>, <<97, 97>>, <<98, 97, 97>>, <<97, 98, 97, 98>>, Long}

\* The position a valid start index addresses.
Normal(b, i) == IF i < 0 THEN i + length(b) ELSE i

\* Valid start indices: those that address a unit of the string.
StartArgs(b) == {i \in IndexArgs(b) : Normal(b, i) >= 0 /\ Normal(b, i) < length(b)}

\* End arguments: left out, or a position up to one past the end.
EndArgs(b) == {None, Some(1), Some(2), Some(length(b)), Some(length(b) + 1)}

\* q occurs in the string s at position p.
Occurs(s, q, p) ==
    /\ p >= 0
    /\ p + Len(q) <= Len(s)
    /\ SubSeq(s, p + 1, p + Len(q)) = q

\* C11: for a non-empty literal query q and a valid startAt, when q occurs
\* in str() at a position p with startAt <= p < end, search(q, startAt, end)
\* returns the smallest such p, also while prepended data is unmerged.
C11_SearchFirst ==
    LET old == StrOf(sb)
    IN  \A q \in Queries, i \in StartArgs(sb), e \in EndArgs(sb) :
            LET stop == IF e = None THEN length(sb) ELSE e[1]
                ps   == {p \in Normal(sb, i)..(stop - 1) : Occurs(old, q, p)}
                r    == search(sb, q, i, e)
            IN  ps # {} =>
                    /\ ~r.threw
                    /\ r.ret[1] \in ps
                    /\ \A p \in ps : r.ret[1] <= p

C11_Witness ==
    /\ last = [op |-> "search", threw |-> FALSE]
    /\ Unmerged(sb)
    /\ StrOf(sb) = <<98, 97, 97, 98>>
    /\ search(sb, <<97, 97>>, 0, None).ret = <<1>>
    /\ search(sb, <<98>>, 1, None).ret = <<3>>

\* C12: search with a non-empty literal query that does not occur in the
\* builder at or after a valid startAt returns -1 and raises no error, for
\* every query length, and on an empty builder.
C12_SearchAbsent ==
    LET old == StrOf(sb)
    IN  \A q \in Queries :
            /\ length(sb) = 0 => search(sb, q, 0, None) = Return(sb, <<-1>>)
            /\ \A i \in StartArgs(sb) :
                  (\A p \in Normal(sb, i)..Len(old) : ~Occurs(old, q, p)) =>
                      search(sb, q, i, None) = Return(sb, <<-1>>)

\* C13: for 0 <= start < length and start <= end, substring(start, end)
\* returns the units of str() in [start, min(end, length)), substring(start)
\* those in [start, length); on an empty builder substring raises
\* RangeError for every start.
C13_Substring ==
    LET old == StrOf(sb)
        n   == length(sb)
    IN  /\ \A i \in IndexArgs(sb) \cap (0..(n - 1)) :
              /\ substring(sb, i, None).ret = SubSeq(old, i + 1, n)
              /\ ~substring(sb, i, None).threw
              /\ \A e \in {i, i + 1, n, n + 1, BigDel} :
                    i <= e =>
                        /\ ~substring(sb, i, Some(e)).threw
                        /\ substring(sb, i, Some(e)).ret
                               = SubSeq(old, i + 1, Min(e, n))
        /\ n = 0 =>
              \A i \in IndexArgs(sb) :
                  /\ substring(sb, i, None).threw
                  /\ substring(sb, i, Some(1)).threw

C13_Witness ==
    /\ last = [op |-> "substring", threw |-> FALSE]
    /\ calls = 2
    /\ StrOf(sb) = <<98, 97, 97, 98>>
    /\ substring(sb, 1, Some(3)).ret = <<97, 97>>
    /\ substring(sb, 2, None).ret = <<97, 98>>

\* Builders handed to equals: built from a string, or holding part or all
\* of their content in the prepend buffer.
Builders ==
    {construct(Str(<<>>), TRUE),
     construct(Str(<<97, 98>>), FALSE),
     construct(Str(<<98, 97, 97, 98>>), TRUE),
     prepend(construct(Str(<<97, 98>>), TRUE), Str(<<98, 97>>)).sb,
     prepend(construct(Str(<<>>), TRUE), Str(<<97, 98>>)).sb}

\* C14: equals(x) returns true exactly when x has the length and the code
\* units of the builder's str(), for a string and for a builder operand,
\* whatever either builder holds unmerged; equals is reflexive and
\* symmetric between builders.
C14_Equals ==
    LET old == StrOf(sb)
    IN  /\ \A x \in Strings \cup {old, <<98, 97, 97, 98>>} :
              equals(sb, Str(x)) = Return(sb, <<x = old>>)
        /\ \A o \in Builders \cup {sb} :
              /\ equals(sb, Sb(o)) = Return(sb, <<StrOf(o) = old>>)
              /\ equals(o, Sb(sb)) = Return(o, <<StrOf(o) = old>>)
        /\ equals(sb, This) = Return(sb, <<TRUE>>)

\* Replacement values: shorter than, as long as and longer than a query.
Values == {<<>>, <<98>>, <<97, 98>>, <<98, 98, 97>>}

\* C15: for a non-empty literal query q whose first occurrence is at p,
\* replace(q, v) leaves str() = old[0, p) v old[p + len(q), length), for
\* every v; when q does not occur the string is unchanged.
C15_Replace ==
    LET old == StrOf(sb)
    IN  \A q \in Queries, v \in Values :
            LET ps  == {p \in 0..Len(old) : Occurs(old, q, p)}
                p0  == CHOOSE p \in ps : \A k \in ps : p <= k
                new == StrOf(replace(sb, q, v, 0, None).sb)
            IN  IF ps = {} THEN new = old
                ELSE new = Spliced(old, p0, Len(q), v)

\* C16: in every reachable builder state, after clear() the length is 0,
\* str() returns the empty string and bufferLength is as before the call.
C16_Clear ==
    LET b == clear(sb)
    IN  /\ length(b) = 0
        /\ StrOf(b) = <<>>
        /\ bufferLength(b) = bufferLength(sb)

\* C17: shrink() never increases bufferLength and leaves str() and length
\* exactly as they were before the call, in every builder state.
C17_ShrinkFrame ==
    LET r == shrink(sb)
    IN  /\ bufferLength(r.sb) <= bufferLength(sb)
        /\ StrOf(r.sb) = StrOf(sb)
        /\ length(r.sb) = length(sb)

\* The fit bound of a buffer that holds n units.
FitBound(n) == Max(StringBuilderMinSize, (n + 1) * 2)

ReserveArgs == {0, 1, StringBuilderMinSize, StringBuilderMinSize + 1,
                2 * StringBuilderMinSize + 5, BigDel}

\* C19: after reserve(n), bufferLength is at least n; reserve never
\* decreases bufferLength and never changes str() or length.
C19_Reserve ==
    LET old == StrOf(sb)
    IN  \A n \in ReserveArgs :
            LET r == reserve(sb, n)
            IN  /\ ~r.threw
                /\ bufferLength(r.sb) >= n
                /\ bufferLength(r.sb) >= bufferLength(sb)
                /\ StrOf(r.sb) = old
                /\ length(r.sb) = length(sb)

\* C20: once a str() read has returned, the dirty flag is false, and a
\* second str() with no mutation in between returns the same value from
\* the cache without decoding the buffer again.
C20_StrCleansCache ==
    LET r == str_get(sb)
    IN  /\ ~r.sb._isDirty
        /\ str_get(r.sb).ret = r.ret

\* The entries of an enumeration joined into one string.
RECURSIVE Joined(_)
Joined(entries) ==
    IF Len(entries) = 0 THEN <<>>
    ELSE entries[1] \o Joined(Tail(entries))

\* An enumeration yields exactly length(b) entries, the i-th being
\* charAt(i), and joining them gives str().
Enumerates(b, r) ==
    /\ ~r.threw
    /\ Len(r.ret) = length(b)
    /\ \A i \in 1..Len(r.ret) : r.ret[i] = charAt(b, i - 1).ret
    /\ Joined(r.ret) = StrOf(b)

\* C21: in every reachable builder state, unmerged prepended data
\* included, for-of iteration, forEach without early break and toArray()
\* each produce exactly length entries, the i-th being charAt(i), so that
\* concatenating them gives str().
C21_Enumerations ==
    /\ Enumerates(sb, iterator(sb))
    /\ Enumerates(sb, forEach(sb))
    /\ Enumerates(sb, toArray(sb))

\* The negative indices of b: -length <= i < 0.
NegativeArgs(b) == {i \in -MaxIdx..-1 : -length(b) <= i}

\* Two calls behave alike: both throw or neither does, they return the
\* same value, and str() and length are the same afterwards.
Alike(r1, r2) ==
    /\ r1.threw = r2.threw
    /\ r1.ret = r2.ret
    /\ StrOf(r1.sb) = StrOf(r2.sb)
    /\ length(r1.sb) = length(r2.sb)

\* Each index-taking operation behaves for the negative index i as it does
\* for the index length + i.
NegCharAt(b) ==
    \A i \in NegativeArgs(b) : Alike(charAt(b, i), charAt(b, length(b) + i))

NegCharCodeAt(b) ==
    \A i \in NegativeArgs(b) :
        Alike(charCodeAt(b, i), charCodeAt(b, length(b) + i))

NegInsert(b) ==
    \A i \in NegativeArgs(b) : \A d \in Sequences :
        Alike(insert(b, i, d), insert(b, length(b) + i, d))

NegSplice(b) ==
    \A i \in NegativeArgs(b) : \A n \in DelCounts : \A d \in Sequences :
        Alike(splice(b, i, n, d), splice(b, length(b) + i, n, d))

NegWrite(b) ==
    \A i \in NegativeArgs(b) : \A d \in Sequences :
        Alike(write(b, i, d), write(b, length(b) + i, d))

NegSubstring(b) ==
    \A i \in NegativeArgs(b) : \A e \in EndArgs(b) :
        Alike(substring(b, i, e), substring(b, length(b) + i, e))

NegSearch(b) ==
    \A i \in NegativeArgs(b) : \A q \in Queries :
        Alike(search(b, q, i, None), search(b, q, length(b) + i, None))

\* C22: every public operation that takes an index argument (charAt,
\* charCodeAt, insert, splice, write, substring, the startAt of search)
\* accepts a negative index i with -length <= i < 0 and behaves exactly as
\* it does for the index length + i.
C22_NegativeIndex ==
    /\ NegCharAt(sb)
    /\ NegCharCodeAt(sb)
    /\ NegInsert(sb)
    /\ NegSplice(sb)
    /\ NegWrite(sb)
    /\ NegSubstring(sb)
    /\ NegSearch(sb)

\* Empty sequences: the empty string and the empty array.
Empties == {Str(<<>>), Arr(<<>>)}

\* Index arguments around both ends of the string of b: inside, at the
\* ends, and one past them, counted from the start and from the end.
EdgeIndices(b) ==
    {0, 1, length(b), length(b) + 1, -1, -length(b), -length(b) - 1}

\* The call raised nothing and left str() and length at old and len.
NoOp(old, len, r) ==
    /\ ~r.threw
    /\ StrOf(r.sb) = old
    /\ length(r.sb) = len

\* append, prepend and write with an empty sequence change nothing and
\* raise nothing, whatever index write is given.
EmptyWrites(b, old, len) ==
    \A d \in Empties :
        /\ NoOp(old, len, append(b, d))
        /\ NoOp(old, len, prepend(b, d))
        /\ \A i \in EdgeIndices(b) : NoOp(old, len, write(b, i, d))

\* C23 as stated: empty input is never an error: append, prepend and write
\* with an empty sequence, insert(i, empty) and splice(i, 0) for any index
\* argument i leave str() and length unchanged and raise nothing, and
\* search with an empty literal query returns -1 for any startAt and raises
\* nothing.
C23_EmptyAnyIndex ==
    LET old == StrOf(sb)
        len == length(sb)
    IN  /\ EmptyWrites(sb, old, len)
        /\ \A i \in EdgeIndices(sb) :
              /\ \A d \in Empties : NoOp(old, len, insert(sb, i, d))
              /\ NoOp(old, len, splice(sb, i, 0, Str(<<>>)))
              /\ search(sb, <<>>, i, None) = Return(sb, <<-1>>)

\* C23, amended: append, prepend and write with an empty sequence leave
\* str() and length unchanged and raise nothing; insert(i, empty) and
\* splice(i, 0) do so for -length <= i <= length and raise RangeError for
\* every other i, except that insert(0, empty) on a builder that has a
\* prepend buffer never raises; search with an empty literal query returns
\* -1 when the builder is empty or -length <= startAt < length, and raises
\* RangeError for every other startAt.
C23_EmptyInput ==
    LET old == StrOf(sb)
        len == length(sb)
    IN  /\ EmptyWrites(sb, old, len)
        /\ \A i \in EdgeIndices(sb) :
              LET inRange == -len <= i /\ i <= len
                  s == search(sb, <<>>, i, None)
                  p == splice(sb, i, 0, Str(<<>>))
              IN  /\ \A d \in Empties :
                        IF inRange \/ (i = 0 /\ HasPrepend(sb))
                        THEN NoOp(old, len, insert(sb, i, d))
                        ELSE insert(sb, i, d).threw
                  /\ IF inRange THEN NoOp(old, len, p) ELSE p.threw
                  /\ IF len = 0 \/ (inRange /\ i # len)
                     THEN s = Return(sb, <<-1>>)
                     ELSE s.threw

C23_Witness ==
    /\ last = [op |-> "insert", threw |-> FALSE]
    /\ StrOf(sb) = <<97, 98, 98>>
    /\ StrOf(insert(sb, 3, Arr(<<>>)).sb) = <<97, 98, 98>>
    /\ insert(sb, 4, Str(<<>>)).threw
    /\ splice(sb, -4, 0, Str(<<>>)).threw
    /\ search(sb, <<>>, 2, None).ret = <<-1>>
    /\ search(sb, <<>>, 3, None).threw

\* The units the prepend buffer of b holds.
Pending(b) == IF HasPrepend(b) THEN b._toPrepend[1]._length ELSE 0

\* Strings handed to the setter: plain, starting with a byte order mark,
\* and holding a surrogate without its pair.
Texts == {<<98, 97>>, <<65279, 97>>, <<97, 55357>>}

\* C24: in every reachable builder state, after the setter str(x) the
\* logical string is exactly x: str() returns x, length equals len(x), any
\* data still waiting in the prepend buffer is discarded and not merged
\* later, and bufferLength has not decreased.
C24_StrSetter ==
    \A x \in Strings \cup Texts :
        LET r == str_set(sb, x)
            later == str_get(append(r.sb, Str(<<97>>)).sb).sb
        IN  /\ ~r.threw
            /\ StrOf(r.sb) = x
            /\ length(r.sb) = Len(x)
            /\ Pending(r.sb) = 0
            /\ length(later) = Len(x) + 1
            /\ subarray(later._str, 0, later._length) = x \o <<97>>
            /\ bufferLength(r.sb) >= bufferLength(sb)

C24_Witness ==
    /\ last = [op |-> "str=", threw |-> FALSE]
    /\ HasPrepend(sb)
    /\ sb._toPrepend[1]._length = 0
    /\ sb._toPrepend[1]._str[1] = 97
    /\ StrOf(sb) = <<98>>
    /\ length(sb) = 1
    /\ StrOf(append(sb, Str(<<97>>)).sb) = <<98, 97>>

\* C25: pre-sizing prevents reallocation: after constructing a builder
\* with capacity n, or after reserve(n), any sequence of append calls that
\* keeps the total length at or below n leaves the main buffer's capacity
\* unchanged.
C25_PreSizing == [][Len(sb'._str) = Len(sb._str)]_vars

C25_Witness ==
    /\ last = [op |-> "append", threw |-> FALSE]
    /\ calls = 2
    /\ made[1] = Num(StringBuilderMinSize + 3)
    /\ length(sb) = StringBuilderMinSize + 3
    /\ Len(sb._str) = (StringBuilderMinSize + 4) * 2
    /\ StrOf(sb) = <<98, 97>> \o Long

\* The buffer of b holds between 0 and its capacity significant units.
WithinCapacity(b) == 0 <= b._length /\ b._length <= Len(b._str)

\* C26: after any sequence of public operations (construction, append,
\* prepend, insert, splice, write, replace, str setter, clear, reserve,
\* shrink, and calls rejected with RangeError), both the main buffer and
\* the prepend buffer satisfy 0 <= logical length <= capacity.
C26_LengthWithinCapacity ==
    /\ WithinCapacity(sb)
    /\ HasPrepend(sb) => WithinCapacity(sb._toPrepend[1])

\* The length getter as a call: it returns the length and changes nothing.
length_get(b) == Return(b, <<length(b)>>)

\* Delete counts and non-empty data of the calls made on a builder that
\* holds unmerged prepended data.
FewCounts == {0, 1}

Filled == {d \in Sequences : Len(d.val) > 0}

\* Index arguments of those calls: negative, inside, at the end and past
\* the end.
FewIndices(b) == {-1, 1, length(b), length(b) + 1}

\* The units the prepend buffer holds after each call that merges: splice,
\* insert at a non-zero index, write of non-empty data, replace, substring.
PendingAfterMerging(b) ==
    {Pending(splice(b, i, n, d).sb) :
        i \in FewIndices(b) \cup {0}, n \in FewCounts, d \in Sequences}
    \cup {Pending(insert(b, i, d).sb) : i \in FewIndices(b), d \in Sequences}
    \cup {Pending(write(b, i, d).sb) : i \in FewIndices(b) \cup {0}, d \in Filled}
    \cup {Pending(replace(b, q, v, 0, None).sb) :
              q \in {<<>>, <<97>>, <<98, 97, 97>>}, v \in {<<>>, <<98>>}}
    \cup {Pending(substring(b, i, e).sb) :
              i \in FewIndices(b) \cup {0}, e \in {None, Some(2)}}

\* The units the prepend buffer holds after each call that does not merge:
\* append, length, charAt, search, equals and shrink.
PendingAfterOthers(b) ==
    {Pending(append(b, d).sb) : d \in Filled \cup {Num(98)}}
    \cup {Pending(length_get(b).sb), Pending(shrink(b).sb)}
    \cup {Pending(charAt(b, i).sb) : i \in FewIndices(b) \cup {0}}
    \cup {Pending(search(b, q, 0, None).sb) : q \in {<<97>>, <<98, 97, 97>>}}
    \cup {Pending(equals(b, x).sb) : x \in {Str(StrOf(b)), Str(<<97>>), This}}

CacheHolds(b) ==
    ~b._isDirty => b._temp = decode(subarray(b._str, 0, b._length))

\* C28: in every reachable state where the dirty flag is false, the cached
\* string equals the decoded units of the main buffer in [0, logical
\* length); every path that changes buffer contents or length, the internal
\* prepend merge included, sets the dirty flag.
C28_CacheInvariant ==
    /\ CacheHolds(sb)
    /\ CacheHolds(_applyPrepend(sb))
    /\ \A x \in Texts : CacheHolds(str_set(sb, x).sb)

\* A call that raised RangeError left str() and length at old and len.
Rejected(old, len, r) ==
    r.threw => StrOf(r.sb) = old /\ length(r.sb) = len

\* C29: whenever charAt, charCodeAt, insert, splice, substring or search
\* raises RangeError, the builder's logical string and length (what str()
\* and length return afterwards) are the same as before the call.
C29_RangeErrorFrame ==
    LET old == StrOf(sb)
        len == length(sb)
    IN  /\ \A i \in FewIndices(sb) \cup {-len - 1} :
              /\ Rejected(old, len, charAt(sb, i))
              /\ Rejected(old, len, charCodeAt(sb, i))
              /\ \A d \in Filled : Rejected(old, len, insert(sb, i, d))
              /\ \A n \in FewCounts :
                    Rejected(old, len, splice(sb, i, n, Arr(<<97>>)))
              /\ \A e \in {None, Some(len + 1)} :
                    Rejected(old, len, substring(sb, i, e))
              /\ \A q \in {<<>>, <<97>>} :
                    Rejected(old, len, search(sb, q, i, None))
        /\ \A e \in {None, Some(-len - 1)} :
              /\ Rejected(old, len, search(sb, <<97, 98, 97, 98>>, 0, e))
              /\ Rejected(old, len, substring(sb, 0, e))

C29_Witness ==
    /\ last = [op |-> "insert", threw |-> TRUE]
    /\ HasPrepend(sb)
    /\ StrOf(sb) = <<>>
    /\ LET b == prepend(sb, Str(<<98, 97>>)).sb
           r == splice(b, 3, 1, Arr(<<97>>))
       IN  /\ Pending(b) = 2
           /\ r.threw
           /\ Pending(r.sb) = 0
           /\ StrOf(r.sb) = <<98, 97>>
           /\ charAt(b, 2).threw
           /\ substring(b, -3, None).threw
           /\ search(b, <<97>>, 2, None).threw

\* Data prepended before the shrink: none, short, and more than the
\* smallest buffer holds.
Prepended == {<<>>, <<98, 97>>, Long}

\* The main buffer of b has room for the whole string, and str() leaves
\* its capacity as it is.
RoomForStr(b) ==
    /\ Len(b._str) >= length(b)
    /\ Len(str_get(b).sb._str) = Len(b._str)

====
